---- MODULE Spec2Model ----
(***************************************************************************)
(* A model of the review service of src/app.py: the keyword classifier     *)
(* analyze_sentiment, the two request handlers create_review and           *)
(* get_reviews, the reviews table they write and read, the connection pool *)
(* they share and the response_model validation FastAPI applies to what    *)
(* the handlers return.                                                    *)
(*                                                                         *)
(* Text.  A str is a sequence of characters.  A character is written as a  *)
(* short ASCII token naming one Unicode code point:                        *)
(*   "kh" U+0445  "o" U+043E  "r" U+0440  "sh" U+0448  "l" U+043B          *)
(*   "yu" U+044E  "b" U+0431  "p" U+043F  "n" U+043D  "e" U+0435           *)
(*   "a" U+0430   "v" U+0432  "i" U+0438  "zh" U+0436  "d" U+0434          *)
(*   "_" U+0020 (space)                                                    *)
(* and the same token in capitals for the upper-case letter (U+0425 for    *)
(* "KH", U+041E for "O", ...).  So <<"kh","o","r","o","sh">> is the first  *)
(* keyword of line 49.                                                     *)
(***************************************************************************)
EXTENDS Integers, Sequences, FiniteSets, TLC

VARIABLES
    rows,      \* the reviews table, in insertion order (lines 27-32)
    nextId,    \* the next value of the SERIAL sequence behind reviews.id
    clock,     \* the server clock datetime.now() reads (line 59)
    req,       \* the HTTP requests: input, position in the handler, response
    ctext,     \* classifier harness: the input of analyze_sentiment
    cresult,   \* classifier harness: what analyze_sentiment returned
    cpc        \* classifier harness: "off", "input" or "classified"

vars == <<rows, nextId, clock, req, ctext, cresult, cpc>>

-----------------------------------------------------------------------------
(* Bounds of the model.                                                    *)

NumReq == 2      \* requests in one run
PoolSize == 1    \* connections of the pool (max_size of asyncpg.create_pool)
MaxClock == 1    \* the clock ticks at most this many times
MaxFrag == 2     \* fragments concatenated into one classifier input

-----------------------------------------------------------------------------
(* Characters and str.lower().                                             *)

LowerLetters ==
    {"kh", "o", "r", "sh", "l", "yu", "b", "p", "n", "e", "a", "v", "i", "zh", "d"}

UpperOf(c) ==
    CASE c = "kh" -> "KH" [] c = "o" -> "O" [] c = "r" -> "R" [] c = "sh" -> "SH"
      [] c = "l" -> "L" [] c = "yu" -> "YU" [] c = "b" -> "B" [] c = "p" -> "P"
      [] c = "n" -> "N" [] c = "e" -> "E" [] c = "a" -> "A" [] c = "v" -> "V"
      [] c = "i" -> "I" [] c = "zh" -> "ZH" [] c = "d" -> "D"
      [] OTHER -> c

\* str.lower() on one character: an upper-case letter becomes its lower-case
\* letter, every other character is kept.
LowerChar(c) ==
    IF \E l \in LowerLetters : UpperOf(l) = c
    THEN CHOOSE l \in LowerLetters : UpperOf(l) = c
    ELSE c

\* text.lower() (line 48)
Lower(text) == [i \in 1..Len(text) |-> LowerChar(text[i])]

\* word in text (lines 49, 51): word occurs in text as a substring
Contains(text, word) ==
    \E i \in 1..(Len(text) - Len(word) + 1) :
        SubSeq(text, i, i + Len(word) - 1) = word

\* the keyword lists of lines 49 and 51
PositiveWords == << <<"kh", "o", "r", "o", "sh">>, <<"l", "yu", "b", "l", "yu">> >>
NegativeWords == << <<"p", "l", "o", "kh", "o">>, <<"n", "e", "n", "a", "v", "i", "zh">> >>

\* any(word in text_lower for word in words)
AnyWordIn(words, text_lower) ==
    \E k \in 1..Len(words) : Contains(text_lower, words[k])

\* A plausible slip: the text is searched as given, not lower-cased.
analyze_sentiment_nolower(text) ==
    IF AnyWordIn(PositiveWords, text) THEN "positive"
    ELSE IF AnyWordIn(NegativeWords, text) THEN "negative"
    ELSE "neutral"

\* analyze_sentiment (lines 47-53)
analyze_sentiment(text) ==
    LET text_lower == Lower(text) IN
    IF AnyWordIn(PositiveWords, text_lower) THEN "positive"
    ELSE IF AnyWordIn(NegativeWords, text_lower) THEN "negative"
    ELSE "neutral"

-----------------------------------------------------------------------------
(* Inputs.                                                                 *)

\* Pieces the classifier's inputs are concatenated from: the keywords, whole,
\* in capitals and mixed case, cut in two, and characters of no keyword.
Fragments ==
    { <<"kh", "o", "r", "o", "sh">>, <<"l", "yu", "b", "l", "yu">>,
      <<"p", "l", "o", "kh", "o">>, <<"n", "e", "n", "a", "v", "i", "zh">>,
      <<"KH", "o", "R", "O", "sh">>, <<"N", "E", "N", "A", "V", "I", "ZH">>,
      <<"P", "l", "o">>, <<"kh", "o", "r", "o">>, <<"SH">>, <<"sh">>,
      <<"kh", "O">>, <<"l", "yu", "b">>, <<"L", "YU">>, <<"_">>, <<"d">> }

RECURSIVE Concats(_)
Concats(n) ==
    IF n = 0 THEN { <<>> }
    ELSE Concats(n - 1) \cup { s \o f : s \in Concats(n - 1), f \in Fragments }

ClassifierInputs == Concats(MaxFrag)

\* The review texts the requests of the service carry.
Texts ==
    { <<>>, <<"N", "e", "n", "a", "v", "i", "zh">> }

\* A request body: whether it parses as JSON, whether the object has a "text"
\* member and whether that member is a JSON string.  The non-string member is
\* null, an array or an object, which no version of the validator coerces.
Bodies ==
    { [wellformed |-> TRUE, hasText |-> TRUE, textIsStr |-> TRUE, text |-> t] : t \in Texts }
    \cup { [wellformed |-> FALSE, hasText |-> FALSE, textIsStr |-> FALSE, text |-> <<>>],
           [wellformed |-> TRUE, hasText |-> FALSE, textIsStr |-> FALSE, text |-> <<>>],
           [wellformed |-> TRUE, hasText |-> TRUE, textIsStr |-> FALSE, text |-> <<>>] }

NoBody == [wellformed |-> FALSE, hasText |-> FALSE, textIsStr |-> FALSE, text |-> <<>>]

\* The sentiment query parameter: absent (None, line 75) or a string.
NoFilter == [present |-> FALSE, value |-> ""]

Filters ==
    { NoFilter }
    \cup { [present |-> TRUE, value |-> v] : v \in {"", "negative", "unknown"} }

Requests == 1..NumReq

-----------------------------------------------------------------------------
(* Types of the values the handlers return, and the response model.        *)

\* What asyncpg decodes the columns of lines 28-31 to.
ColumnType ==
    [id |-> "int", text |-> "str", sentiment |-> "str", created_at |-> "datetime"]

\* ReviewResponse (lines 40-44)
ReviewResponse ==
    [id |-> "int", text |-> "str", sentiment |-> "str", created_at |-> "str"]

\* A plausible slip: text declared Optional, so a body without it passes.
ReviewRequest_optional(body) == body.wellformed

\* ReviewRequest (lines 36-37): the body is a JSON object whose "text" is a str
ReviewRequest(body) == body.wellformed /\ body.hasText /\ body.textIsStr

\* dict(record) (lines 71, 86): the selected columns, each value as decoded
dict(row) ==
    [id |-> [type |-> ColumnType.id, value |-> row.id],
     text |-> [type |-> ColumnType.text, value |-> row.text],
     sentiment |-> [type |-> ColumnType.sentiment, value |-> row.sentiment],
     created_at |-> [type |-> ColumnType.created_at, value |-> row.created_at]]

\* Validation of one returned dict against the response model: a value passes
\* a field when it has the field's type (a datetime is not coerced to str).
ResponseValid(d) ==
    /\ d.id.type = ReviewResponse.id
    /\ d.text.type = ReviewResponse.text
    /\ d.sentiment.type = ReviewResponse.sentiment
    /\ d.created_at.type = ReviewResponse.created_at

\* The JSON object sent for a dict that passed validation.
Serialize(d) ==
    [id |-> d.id.value, text |-> d.text.value,
     sentiment |-> d.sentiment.value, created_at |-> d.created_at.value]

-----------------------------------------------------------------------------
(* The store.                                                              *)

\* WHERE sentiment = $1 (line 79)
RowsWhereSentiment(value) == { rows[i] : i \in {j \in 1..Len(rows) : rows[j].sentiment = value} }

\* all rows (line 84)
AllRows == { rows[i] : i \in 1..Len(rows) }

\* ORDER BY created_at DESC (lines 79, 84): every sequence of the selected rows
\* with no earlier row before a later one; rows of equal created_at come in
\* whatever order the store produces.
OrderByCreatedAtDesc(S) ==
    { s \in [1..Cardinality(S) -> S] :
        /\ \A i, j \in 1..Cardinality(S) : i # j => s[i] # s[j]
        /\ \A i, j \in 1..Cardinality(S) : i < j => s[i].created_at >= s[j].created_at }

\* WHERE id = $1 (line 68)
RowsWhereId(id) == { rows[i] : i \in {j \in 1..Len(rows) : rows[j].id = id} }

\* if sentiment: (line 77)
Truthy(filter) == filter.present /\ filter.value # ""

\* the rows the query of get_reviews selects (lines 77-85)
SelectedRows(filter) ==
    IF Truthy(filter) THEN RowsWhereSentiment(filter.value) ELSE AllRows

\* A plausible slip: a reading that decreases as time passes (time left until a
\* deadline instead of the time of day).
Now_remaining == MaxClock + 2 - clock

\* datetime.now() (line 59)
Now == clock

\* connections checked out of the pool
CheckedOut == Cardinality({ r \in Requests : req[r].held })

-----------------------------------------------------------------------------
(* Requests.                                                               *)

Idle ==
    [kind |-> "none", body |-> NoBody, filter |-> NoFilter, pc |-> "idle",
     sentiment |-> "", created_at |-> 0, review_id |-> 0,
     held |-> FALSE, acquired |-> 0, ret |-> <<>>,
     status |-> 0, err |-> "none", resp |-> <<>>,
     before |-> {}, startNext |-> 0]

Finished == { r \in Requests : req[r].pc = "done" }

\* Requests are numbered in the order they arrive.
Arrives(r) ==
    /\ req[r].pc = "idle"
    /\ r > 1 => req[r - 1].pc # "idle"

Init ==
    /\ rows = <<>>
    /\ nextId = 1
    /\ clock = 1
    /\ req = [r \in Requests |-> Idle]
    /\ ctext = <<>>
    /\ cresult = ""
    /\ cpc = "off"

\* An exception raised by a statement inside the async with block (lines
\* 61-71, 76-86): it is in flight, the connection is still checked out and
\* nothing has been answered yet.
StoreError(q) == [q EXCEPT !.pc = "release", !.err = "store"]

\* An exception raised by pool.acquire() itself (lines 61, 76): the block is
\* not entered, no connection is held, the request is answered 500.
AcquireError(q) ==
    [q EXCEPT !.pc = "done", !.status = 500, !.err = "store"]

\* A plausible slip: the connection is acquired without the async with block,
\* so an exception skips its release.
Released_leak(q) ==
    IF q.err = "store"
    THEN [q EXCEPT !.pc = "done", !.status = 500]
    ELSE [q EXCEPT !.held = FALSE, !.pc = "respond"]

\* Leaving the async with block (lines 61, 76) gives the connection back, on a
\* return as on an exception; the exception then becomes a 500 response, the
\* returned value goes to the response model.
Released(q) ==
    IF q.err = "store"
    THEN [q EXCEPT !.held = FALSE, !.pc = "done", !.status = 500]
    ELSE [q EXCEPT !.held = FALSE, !.pc = "respond"]

\* POST /reviews with a body ReviewRequest rejects: 422, create_review is
\* not called (lines 36-37, 56-57).
RejectCreate(r, body) ==
    /\ Arrives(r)
    /\ ~ReviewRequest(body)
    /\ req' = [req EXCEPT ![r] =
                 [@ EXCEPT !.kind = "create", !.body = body, !.pc = "done",
                           !.status = 422, !.err = "validation"]]
    /\ UNCHANGED <<rows, nextId, clock, ctext, cresult, cpc>>

\* create_review up to the pool (lines 57-61)
EnterCreate(r, body) ==
    /\ Arrives(r)
    /\ ReviewRequest(body)
    /\ req' = [req EXCEPT ![r] =
                 [@ EXCEPT !.kind = "create", !.body = body, !.pc = "acquire",
                           !.sentiment = analyze_sentiment(body.text),
                           !.created_at = Now, !.startNext = nextId]]
    /\ UNCHANGED <<rows, nextId, clock, ctext, cresult, cpc>>

\* get_reviews up to the pool (lines 75-76); an unfiltered request notes which
\* requests had been answered when it arrived
EnterList(r, filter) ==
    /\ Arrives(r)
    /\ req' = [req EXCEPT ![r] =
                 [@ EXCEPT !.kind = "list", !.filter = filter, !.pc = "acquire",
                           !.before = IF filter.present THEN {} ELSE Finished]]
    /\ UNCHANGED <<rows, nextId, clock, ctext, cresult, cpc>>

\* pool.acquire() (lines 61, 76): waits while every connection is checked out
Acquire(r) ==
    /\ req[r].pc = "acquire"
    /\ CheckedOut < PoolSize
    /\ req' = [req EXCEPT ![r] =
                 [@ EXCEPT !.held = TRUE, !.acquired = @ + 1,
                           !.pc = IF req[r].kind = "create" THEN "insert" ELSE "fetch"]]
    /\ UNCHANGED <<rows, nextId, clock, ctext, cresult, cpc>>

\* pool.acquire() raises: the connection handed out cannot be (re)opened
AcquireFail(r) ==
    /\ req[r].pc = "acquire"
    /\ CheckedOut < PoolSize
    /\ req' = [req EXCEPT ![r] = AcquireError(@)]
    /\ UNCHANGED <<rows, nextId, clock, ctext, cresult, cpc>>

\* A plausible slip: the INSERT binds a fixed sentiment instead of the computed one.
NewRow_fixed(r) ==
    [id |-> nextId, text |-> req[r].body.text, sentiment |-> "neutral",
     created_at |-> req[r].created_at, by |-> r]

\* the row INSERT ... RETURNING id adds (lines 62-65)
NewRow(r) ==
    [id |-> nextId, text |-> req[r].body.text, sentiment |-> req[r].sentiment,
     created_at |-> req[r].created_at, by |-> r]

\* conn.fetchval(INSERT ... RETURNING id) (lines 62-65)
Insert(r) ==
    /\ req[r].pc = "insert"
    /\ rows' = Append(rows, NewRow(r))
    /\ nextId' = nextId + 1
    /\ req' = [req EXCEPT ![r] = [@ EXCEPT !.review_id = nextId, !.pc = "readback"]]
    /\ UNCHANGED <<clock, ctext, cresult, cpc>>

\* conn.fetchval raises: the statement did not reach the store, or it was
\* committed there and its reply was lost
InsertFail(r, committed) ==
    /\ req[r].pc = "insert"
    /\ IF committed
       THEN rows' = Append(rows, NewRow(r)) /\ nextId' = nextId + 1
       ELSE UNCHANGED <<rows, nextId>>
    /\ req' = [req EXCEPT ![r] = StoreError(@)]
    /\ UNCHANGED <<clock, ctext, cresult, cpc>>

\* conn.fetchrow(SELECT ... WHERE id = $1) and return dict(new_review)
\* (lines 67-71); the connection is still held while the block is left
ReadBack(r) ==
    /\ req[r].pc = "readback"
    /\ \E new_review \in RowsWhereId(req[r].review_id) :
         req' = [req EXCEPT ![r] =
                   [@ EXCEPT !.ret = <<dict(new_review)>>, !.pc = "release"]]
    /\ UNCHANGED <<rows, nextId, clock, ctext, cresult, cpc>>

\* conn.fetchrow raises (lines 67-70)
ReadBackFail(r) ==
    /\ req[r].pc = "readback"
    /\ req' = [req EXCEPT ![r] = StoreError(@)]
    /\ UNCHANGED <<rows, nextId, clock, ctext, cresult, cpc>>

\* conn.fetch(SELECT ...) and return [dict(review) for review in reviews]
\* (lines 77-86); the connection is still held while the block is left
Fetch(r) ==
    /\ req[r].pc = "fetch"
    /\ \E reviews \in OrderByCreatedAtDesc(SelectedRows(req[r].filter)) :
         req' = [req EXCEPT ![r] =
                   [@ EXCEPT !.ret = [i \in 1..Len(reviews) |-> dict(reviews[i])],
                             !.pc = "release"]]
    /\ UNCHANGED <<rows, nextId, clock, ctext, cresult, cpc>>

\* conn.fetch raises (lines 78-85)
FetchFail(r) ==
    /\ req[r].pc = "fetch"
    /\ req' = [req EXCEPT ![r] = StoreError(@)]
    /\ UNCHANGED <<rows, nextId, clock, ctext, cresult, cpc>>

\* the release awaited on leaving async with pool.acquire() (lines 61, 76)
Release(r) ==
    /\ req[r].pc = "release"
    /\ req' = [req EXCEPT ![r] = Released(@)]
    /\ UNCHANGED <<rows, nextId, clock, ctext, cresult, cpc>>

\* response_model=ReviewResponse, response_model=list[ReviewResponse]
\* (lines 56, 74): what the handler returned is validated against the model;
\* 200 with the serialized value when it passes, 500 when it does not.
Respond(r) ==
    /\ req[r].pc = "respond"
    /\ req' = [req EXCEPT ![r] =
                 IF \A i \in 1..Len(req[r].ret) : ResponseValid(req[r].ret[i])
                 THEN [@ EXCEPT !.pc = "done", !.status = 200,
                                !.resp = [i \in 1..Len(req[r].ret) |-> Serialize(req[r].ret[i])]]
                 ELSE [@ EXCEPT !.pc = "done", !.status = 500, !.err = "response"]]
    /\ UNCHANGED <<rows, nextId, clock, ctext, cresult, cpc>>

\* the server clock advances
Tick ==
    /\ clock <= MaxClock
    /\ clock' = clock + 1
    /\ UNCHANGED <<rows, nextId, req, ctext, cresult, cpc>>

Next ==
    \/ \E r \in Requests, body \in Bodies : RejectCreate(r, body)
    \/ \E r \in Requests, body \in Bodies : EnterCreate(r, body)
    \/ \E r \in Requests, filter \in Filters : EnterList(r, filter)
    \/ \E r \in Requests : Acquire(r)
    \/ \E r \in Requests : AcquireFail(r)
    \/ \E r \in Requests : Insert(r)
    \/ \E r \in Requests, committed \in BOOLEAN : InsertFail(r, committed)
    \/ \E r \in Requests : ReadBack(r)
    \/ \E r \in Requests : ReadBackFail(r)
    \/ \E r \in Requests : Fetch(r)
    \/ \E r \in Requests : FetchFail(r)
    \/ \E r \in Requests : Release(r)
    \/ \E r \in Requests : Respond(r)
    \/ Tick

Spec == Init /\ [][Next]_vars

-----------------------------------------------------------------------------
(* The classifier on its own: an input is drawn, analyze_sentiment is      *)
(* applied to it.  The service stands still.                               *)

InitClassify ==
    /\ rows = <<>>
    /\ nextId = 1
    /\ clock = 1
    /\ req = [r \in Requests |-> Idle]
    /\ ctext \in ClassifierInputs
    /\ cresult = ""
    /\ cpc = "input"

Classify ==
    /\ cpc = "input"
    /\ cresult' = analyze_sentiment(ctext)
    /\ cpc' = "classified"
    /\ UNCHANGED <<rows, nextId, clock, req, ctext>>

NextClassify == Classify

SpecClassify == InitClassify /\ [][NextClassify]_vars

-----------------------------------------------------------------------------
(* Vocabulary of the properties.                                           *)

Sentiments == {"positive", "negative", "neutral"}

Creates == { r \in Requests : req[r].kind = "create" }
Lists == { r \in Requests : req[r].kind = "list" }

\* a create request with an acceptable body that ended with no statement failing
CreatedOk(r) ==
    /\ r \in Creates
    /\ ReviewRequest(req[r].body)
    /\ req[r].pc = "done"
    /\ req[r].err # "store"

\* a list request that ended with no statement failing
ListedOk(r) ==
    /\ r \in Lists
    /\ req[r].pc = "done"
    /\ req[r].err # "store"

RowsBy(r) == { row \in AllRows : row.by = r }

\* a body that is malformed, has no text member or a text that is no string
BadBody(body) == ~body.wellformed \/ ~body.hasText \/ ~body.textIsStr

\* the response object of a persisted row, as the spec describes it
ResponseOf(row) ==
    [id |-> row.id, text |-> row.text, sentiment |-> row.sentiment,
     created_at |-> row.created_at]

\* The reference classifier, written from the specification: the lower-cased
\* text has a keyword between two of its positions.
HasKeyword(text, words) ==
    \E k \in 1..Len(words) : \E i, j \in 0..Len(text) :
        /\ i <= j
        /\ [n \in 1..(j - i) |-> LowerChar(text[i + n])] = words[k]

Reference(text) ==
    IF HasKeyword(text, PositiveWords) THEN "positive"
    ELSE IF HasKeyword(text, NegativeWords) THEN "negative"
    ELSE "neutral"

-----------------------------------------------------------------------------
(* C1: every create request with a string text and a reachable store ends  *)
(* in a 200 response carrying the id, text, sentiment and created_at of    *)
(* the row it inserted, created_at as a string.                            *)
CreateReturnsPersistedReview ==
    \A r \in Requests :
        CreatedOk(r) =>
            /\ req[r].status = 200
            /\ Len(req[r].resp) = 1
            /\ \E row \in RowsBy(r) : req[r].resp[1] = ResponseOf(row)

(* C2: analyze_sentiment equals the reference classifier on every input;   *)
(* text holding a positive and a negative keyword is positive; an input    *)
(* classifies as its lower-cased form does.                                *)
ClassifierIsReference ==
    cpc = "classified" =>
        /\ cresult = Reference(ctext)
        /\ cresult \in Sentiments
        /\ (HasKeyword(ctext, PositiveWords) /\ HasKeyword(ctext, NegativeWords)
              => cresult = "positive")
        /\ cresult = analyze_sentiment(Lower(ctext))

\* a mixed-case input holding a keyword of each list has been classified
ClassifiedBothKeywords ==
    /\ cpc = "classified"
    /\ ctext # Lower(ctext)
    /\ HasKeyword(ctext, PositiveWords)
    /\ HasKeyword(ctext, NegativeWords)
    /\ cresult = "positive"

(* C3: round trip: a create request returns a review, and every unfiltered *)
(* list request that starts afterwards returns a sequence holding a record *)
(* with that review's id, text and sentiment.                              *)
RoundTrip ==
    \A c, l \in Requests :
        (/\ CreatedOk(c)
         /\ ListedOk(l)
         /\ ~req[l].filter.present
         /\ c \in req[l].before)
        =>
            /\ req[c].status = 200
            /\ req[l].status = 200
            /\ \E i \in 1..Len(req[l].resp) :
                 /\ req[l].resp[i].id = req[c].resp[1].id
                 /\ req[l].resp[i].text = req[c].resp[1].text
                 /\ req[l].resp[i].sentiment = req[c].resp[1].sentiment

(* C4: whenever the sentiment parameter is present, whatever string it is  *)
(* (the empty string included), the rows a list request selects are rows   *)
(* whose sentiment equals that string.                                     *)
FilterSelectsEqualSentiment ==
    \A l \in Lists :
        req[l].filter.present =>
            \A i \in 1..Len(req[l].ret) :
                req[l].ret[i].sentiment.value = req[l].filter.value

(* C5: every list result is ordered by created_at descending, and a review *)
(* created after another, with a timestamp not earlier, comes before it.   *)
ListNewestFirst ==
    \A l \in Requests :
        ListedOk(l) =>
            /\ req[l].status = 200
            /\ Len(req[l].resp) = Len(req[l].ret)
            /\ \A i, j \in 1..Len(req[l].resp) :
                 i < j => req[l].resp[i].created_at >= req[l].resp[j].created_at
            /\ \A i, j \in 1..Len(req[l].resp) :
                 (/\ req[l].resp[i].id > req[l].resp[j].id
                  /\ req[l].resp[i].created_at >= req[l].resp[j].created_at)
                 => i < j

(* C6: a create request either returns its inserted row in a 200 response  *)
(* or ends in an error with no row of its own in the store.                *)
CreateAllOrNothing ==
    \A r \in Creates :
        req[r].pc = "done" =>
            \/ /\ req[r].status = 200
               /\ RowsBy(r) # {}
            \/ /\ req[r].status >= 400
               /\ RowsBy(r) = {}

(* C7: a create request whose body is malformed, lacks text or has a       *)
(* non-string text ends in a 4xx response; the handler is not entered, no  *)
(* connection is acquired and no row is inserted.                          *)
RejectedBodyLeavesStore ==
    \A r \in Creates :
        BadBody(req[r].body) =>
            /\ req[r].pc = "done"
            /\ req[r].status \in 400..499
            /\ req[r].acquired = 0
            /\ ~req[r].held
            /\ req[r].sentiment = ""
            /\ RowsBy(r) = {}

\* a body was rejected while another request's row is in the store
RejectedBesideStoredRow ==
    \E r \in Creates :
        /\ BadBody(req[r].body)
        /\ req[r].status = 422
        /\ Len(rows) > 0

(* C8: every row of the table has a sentiment among positive, negative,    *)
(* neutral, and it is analyze_sentiment of the row's text.                 *)
StoredSentimentIsClassification ==
    \A row \in AllRows :
        /\ row.sentiment \in Sentiments
        /\ row.sentiment = analyze_sentiment(row.text)

\* two rows of different sentiments are stored
StoredTwoSentiments ==
    \E a, b \in AllRows :
        /\ a.sentiment = "neutral"
        /\ b.sentiment = "negative"

(* C9: a request holds at most one connection, only while it is at its     *)
(* database statements, and gives it back on every exit; the connections   *)
(* checked out never exceed the pool; a request that finds them all in use *)
(* waits and does not fail; with no request in flight none is checked out. *)
PoolScoped ==
    /\ [](/\ CheckedOut <= PoolSize
          /\ \A r \in Requests :
               /\ req[r].acquired <= 1
               /\ req[r].held <=> req[r].pc \in {"insert", "readback", "fetch", "release"}
          /\ ((\A r \in Requests : req[r].pc \in {"idle", "done"}) => CheckedOut = 0))
    /\ [][\A r \in Requests :
            (req[r].pc = "acquire" /\ CheckedOut = PoolSize)
            => (req'[r].pc = "acquire" /\ req'[r].status = 0)]_vars

\* a request waits at pool.acquire() while another, whose statement raised,
\* still holds the last connection and has not been answered
WaitsForConnection ==
    \E r, h \in Requests :
        /\ req[r].pc = "acquire"
        /\ req[h].pc = "release"
        /\ req[h].err = "store"
        /\ req[h].held
        /\ req[h].status = 0
        /\ CheckedOut = PoolSize

(* C10: id order and timestamp order of the rows agree: the row with the   *)
(* larger id has a created_at not earlier than the other's.                *)
IdOrderIsTimeOrder ==
    \A a, b \in AllRows :
        a.id < b.id => a.created_at <= b.created_at

(* C10, amended: ids increase in insertion order, and id order and         *)
(* timestamp order agree for two rows when the first was already inserted  *)
(* as the second row's request took its timestamp.                         *)
IdOrderIsTimeOrderWhenSequential ==
    /\ \A i, j \in 1..Len(rows) : i < j => rows[i].id < rows[j].id
    /\ \A a, b \in AllRows :
         a.id < req[b.by].startNext =>
             /\ a.id < b.id
             /\ a.created_at <= b.created_at

\* a row inserted by a request that started, later on the clock, after the
\* other row was in the store
SequentialRowsStored ==
    \E a, b \in AllRows :
        /\ a.id < req[b.by].startNext
        /\ a.created_at < b.created_at

====
